---- MODULE Spec2Model ----
(***************************************************************************)
(* Model of the Renault Intelligence Agent (src/src/app): the entry point  *)
(* run, the orchestration graph built by build_graph (query_rewriter,      *)
(* chatbot, the prebuilt ToolNode and tools_condition), the State schema   *)
(* with its add_messages reducer, error_handler and the four tool          *)
(* adapters.                                                               *)
(***************************************************************************)
EXTENDS Integers, Sequences, FiniteSets, TLC

VARIABLES
    pc,                   \* position of run(): "idle", "invoke", "returned", "failed"
    question,             \* the argument of run
    messages,             \* channel State.messages
    original_user_query,  \* channel State.original_user_query
    active,               \* nodes the graph has scheduled for the next step
    dispatched,           \* TRUE while the tools node has its calls in flight
    outputs,              \* per-request output of the tools node in flight
    errorLog,             \* ErrorResponse records produced by error_handler
    llm_input,            \* argument of the latest invoke of this run's llm_with_tools
    llm_calls,            \* number of invoke calls on this run's llm_with_tools
    nextId,               \* source of fresh message ids
    turns,                \* executions of the chatbot node
    answer,               \* value returned by run
    last,                 \* the step taken last and what its collaborators did
    trace,                \* the nodes the graph has executed in this run, in order
    finished,             \* the turns (id, type, requests) of the earlier runs, in order
    plt,                  \* matplotlib.pyplot: the open figures and graph.png
    frames,               \* create_graph invocations of concurrent runs, by run
    tcall,                \* the request the tools node has handled last, on its own
    tret                  \* what the adapter of tcall returned

vars == <<pc, question, messages, original_user_query, active, dispatched,
          outputs, errorLog, llm_input, llm_calls, nextId, turns, answer, last,
          trace, finished, plt, frames, tcall, tret>>

---------------------------------------------------------------------------
(* Bounds of the exploration *)

MaxTurns == 3
MaxCalls == 2
MaxRuns == 2

Questions == {"q1", "q2"}
RewrittenTexts == {"rewritten"}
AnswerTexts == {"answer"}

---------------------------------------------------------------------------
(* Prompt templates and fixed values *)

SYSTEM_PROMPT == "system prompt"
REWRITER_PROMPT(user_input) == "Rewrite the following user query: " \o user_input

None == 0
NoQuery == "<no state>"
NoAnswer == "<no answer>"
NoOutput == "<running>"
NoFault == [msg |-> "", type |-> ""]

START == "__start__"
END == "__end__"

---------------------------------------------------------------------------
(* Chat turns *)

Message(type, content, tool_calls, tool_call_id, name, id) ==
    [id |-> id, type |-> type, content |-> content, tool_calls |-> tool_calls,
     tool_call_id |-> tool_call_id, name |-> name]

SystemMessage(content) == Message("system", content, <<>>, None, "", None)
HumanMessage(content) == Message("human", content, <<>>, None, "", None)
AIMessage(content, tool_calls, id) == Message("ai", content, tool_calls, None, "", id)
ToolMessage(content, name, tool_call_id) ==
    Message("tool", content, <<>>, tool_call_id, name, None)

Last(s) == s[Len(s)]

IsPrefix(s, t) == Len(s) <= Len(t) /\ \A i \in 1..Len(s) : s[i] = t[i]

---------------------------------------------------------------------------
(* State.messages is Annotated[list, add_messages]: the reducer gives every *)
(* turn without an id a fresh one, then merges the update into the current  *)
(* value by id (same id: replaced in place; new id: appended).              *)

CountNone(s) == Cardinality({j \in 1..Len(s) : s[j].id = None})

AssignIds(s, n) ==
    [i \in 1..Len(s) |->
        IF s[i].id = None
        THEN [s[i] EXCEPT !.id = n + Cardinality({j \in 1..(i-1) : s[j].id = None})]
        ELSE s[i]]

IndexOfId(s, id) ==
    IF \E i \in 1..Len(s) : s[i].id = id
    THEN CHOOSE i \in 1..Len(s) : s[i].id = id /\ \A j \in 1..(i-1) : s[j].id # id
    ELSE 0

(* A merge that puts a turn with a new id in front of the others. *)
RECURSIVE MergeFrom_Prepend(_, _, _)
MergeFrom_Prepend(merged, right, k) ==
    IF k > Len(right) THEN merged
    ELSE LET m == right[k]
             idx == IndexOfId(merged, m.id)
         IN MergeFrom_Prepend(IF idx # 0 THEN [merged EXCEPT ![idx] = m]
                                         ELSE <<m>> \o merged,
                              right, k + 1)

RECURSIVE MergeFrom(_, _, _)
MergeFrom(merged, right, k) ==
    IF k > Len(right) THEN merged
    ELSE LET m == right[k]
             idx == IndexOfId(merged, m.id)
         IN MergeFrom(IF idx # 0 THEN [merged EXCEPT ![idx] = m]
                                 ELSE Append(merged, m),
                      right, k + 1)

(* A reducer that concatenates (operator.add) instead of merging by id. *)
add_messages_Concat(left, right) == left \o right

add_messages(left, right) == MergeFrom(left, right, 1)

(* A node that appends to state["messages"] and returns the state hands the *)
(* reducer a list that holds the turns already in the channel; when the     *)
(* list the node received is the channel's own list object (aliased) the    *)
(* left operand has been extended by the append as well.                    *)
ChannelLeft(old, update, aliased) == IF aliased THEN update ELSE old

ChannelWrite(old, update, aliased, n) ==
    LET left0 == ChannelLeft(old, update, aliased)
        left == AssignIds(left0, n)
        right == IF aliased THEN left ELSE AssignIds(update, n + CountNone(left0))
    IN add_messages(left, right)

IdsUsed(old, update, aliased) ==
    CountNone(ChannelLeft(old, update, aliased))
        + (IF aliased THEN 0 ELSE CountNone(update))

---------------------------------------------------------------------------
(* utils.error_handler: the ErrorResponse it returns, which is also what    *)
(* the one logger.error call of the invocation records.                     *)

(* An error_handler that takes the class name for the message. *)
error_handler_ClassAsMessage(error) == [error |-> error.type, type |-> error.type]

error_handler(error) == [error |-> error.msg, type |-> error.type]

---------------------------------------------------------------------------
(* Tool adapters.  Each takes the arguments of the request and what its     *)
(* external collaborators do on this call (outcome.fault is the exception   *)
(* a statement of the try block raises, NoFault if none), and yields the    *)
(* string it returns (result), the ErrorResponse records it has             *)
(* error_handler log (errs), the exception raised inside its body (fault),  *)
(* the exception it lets escape to its caller (raised), the calls it made   *)
(* on its collaborators, in order (calls), and the value it built before    *)
(* rendering it as text (data).                                             *)

AdapterReturn(result, errs, fault, calls, data) ==
    [result |-> result, errs |-> errs, fault |-> fault, raised |-> NoFault,
     calls |-> calls, data |-> data]

Call(fn, arg) == [fn |-> fn, arg |-> arg]

RECURSIVE JoinWith(_, _)
JoinWith(sep, parts) ==
    IF Len(parts) = 0 THEN ""
    ELSE IF Len(parts) = 1 THEN parts[1]
    ELSE parts[1] \o sep \o JoinWith(sep, Tail(parts))

(* strftime on a date <<year, month, day>>: the two directives sequences    *)
(* the explored requests use; a format without directives renders as itself. *)
Pad2(n) == IF n < 10 THEN "0" \o ToString(n) ELSE ToString(n)

FormatDate(date, format) ==
    IF format = "%Y-%m-%d"
    THEN ToString(date[1]) \o "-" \o Pad2(date[2]) \o "-" \o Pad2(date[3])
    ELSE IF format = "%m/%d/%Y"
    THEN Pad2(date[2]) \o "/" \o Pad2(date[3]) \o "/" \o ToString(date[1])
    ELSE format

(* tools/api_tool.py.  A price is a float with one decimal, held in tenths. *)
FloatRepr(tenths) == ToString(tenths \div 10) \o "." \o ToString(tenths % 10)

(* A record that leaves the ticker out. *)
StockRecord_NoTicker(row, ticker) ==
    [date |-> FormatDate(row.date, "%Y-%m-%d"), open |-> row.Open, close |-> row.Close,
     ticker |-> ""]

StockRecord(row, ticker) ==
    [date |-> FormatDate(row.date, "%Y-%m-%d"), open |-> row.Open, close |-> row.Close,
     ticker |-> ticker]

JsonRecord(r) ==
    "{\"date\": \"" \o r.date \o "\", \"open\": " \o FloatRepr(r.open)
        \o ", \"close\": " \o FloatRepr(r.close) \o ", \"ticker\": \"" \o r.ticker \o "\"}"

json_dumps(records) ==
    "[" \o JoinWith(", ", [i \in 1..Len(records) |-> JsonRecord(records[i])]) \o "]"

(* A get_stock_history without its try block. *)
get_stock_history_Uncaught(args, outcome) ==
    LET calls == <<Call("yf.Ticker", args.ticker),
                   Call("history", <<args.start, args.end>>)>>
    IN IF outcome.fault # NoFault
       THEN [AdapterReturn("", <<>>, outcome.fault, calls, <<>>) EXCEPT
                !.raised = outcome.fault]
       ELSE LET records == [i \in 1..Len(outcome.rows) |->
                               StockRecord(outcome.rows[i], args.ticker)]
            IN AdapterReturn(json_dumps(records), <<>>, NoFault, calls, records)

get_stock_history(args, outcome) ==
    LET calls == <<Call("yf.Ticker", args.ticker),
                   Call("history", <<args.start, args.end>>)>>
    IN IF outcome.fault # NoFault
       THEN AdapterReturn("An error occurred while fetching stock history.",
                          <<error_handler(outcome.fault)>>, outcome.fault, calls, <<>>)
       ELSE LET records == [i \in 1..Len(outcome.rows) |->
                               StockRecord(outcome.rows[i], args.ticker)]
            IN AdapterReturn(json_dumps(records), <<>>, NoFault, calls, records)

(* tools/retrieve_tool.py.  outcome.at is the call that raises:             *)
(* "get_retriever" (the index cannot be opened) or "invoke".                *)
Snippet(doc) == "- " \o doc

(* A retriever handed the text of the schema's description instead. *)
RetrieverQuery_Fixed(args) == "The original user question"

RetrieverQuery(args) == args.question

(* config: the settings get_retriever reads. *)
EmbeddingConfig == [model_name |-> "sentence-transformers/all-MiniLM-l6-v2"]

PathConfig == [CHROMA_DB_DIR |-> "db/chromadb"]

(* The settings as_retriever falls back to when it is given none. *)
RetrievalConfig_LibraryDefaults ==
    [search_type |-> "similarity", k |-> 4, collection_name |-> "db-rag"]

RetrievalConfig == [search_type |-> "mmr", k |-> 10, collection_name |-> "db-rag"]

(* get_retriever(): the constructor calls that build one retriever handle,  *)
(* in the order the function makes them.  It takes no argument.             *)
get_retriever ==
    <<Call("HuggingFaceEmbeddings", EmbeddingConfig.model_name),
      Call("chromadb.PersistentClient", PathConfig.CHROMA_DB_DIR),
      Call("Chroma", RetrievalConfig.collection_name),
      Call("db.as_retriever",
           [search_type |-> RetrievalConfig.search_type, k |-> RetrievalConfig.k])>>

retrieve(args, outcome) ==
    LET opened == <<Call("get_retriever", "")>>
        calls == IF outcome.fault # NoFault /\ outcome.at = "get_retriever"
                 THEN opened
                 ELSE Append(opened \o get_retriever,
                             Call("retriever.invoke", RetrieverQuery(args)))
    IN IF outcome.fault # NoFault
       THEN AdapterReturn("An error occurred while retrieving documents.",
                          <<error_handler(outcome.fault)>>, outcome.fault, calls, <<>>)
       ELSE LET lines == [i \in 1..Len(outcome.docs) |-> Snippet(outcome.docs[i])]
            IN AdapterReturn(JoinWith("\n", lines), <<>>, NoFault, calls, lines)

(* matplotlib.pyplot, the state of the process: figs are the open figures   *)
(* in the order pyplot made them current, the last one being the current    *)
(* figure; file is what graph.png holds (<<>> while it does not exist).     *)
NewFigure == [artists |-> <<>>, title |-> "", xlabel |-> "", ylabel |-> "",
              legend |-> FALSE]

PltInit == [figs |-> <<>>, file |-> <<>>]

plt_figure(p) == [p EXCEPT !.figs = Append(@, NewFigure)]

(* gcf: the current figure, created if there is none *)
plt_gcf(p) == IF Len(p.figs) = 0 THEN plt_figure(p) ELSE p

(* A drawing call that also writes the figure to graph.png. *)
plt_draw_Saves(p, artist) ==
    LET q == plt_gcf(p)
    IN [q EXCEPT !.figs[Len(q.figs)].artists = Append(@, artist),
                 !.file = <<[q.figs[Len(q.figs)] EXCEPT !.artists = Append(@, artist)]>>]

plt_draw(p, artist) ==
    LET q == plt_gcf(p)
    IN [q EXCEPT !.figs[Len(q.figs)].artists = Append(@, artist)]

plt_title(p, text) ==
    LET q == plt_gcf(p) IN [q EXCEPT !.figs[Len(q.figs)].title = text]

plt_xlabel(p, text) ==
    LET q == plt_gcf(p) IN [q EXCEPT !.figs[Len(q.figs)].xlabel = text]

plt_ylabel(p, text) ==
    LET q == plt_gcf(p) IN [q EXCEPT !.figs[Len(q.figs)].ylabel = text]

plt_legend(p) ==
    LET q == plt_gcf(p) IN [q EXCEPT !.figs[Len(q.figs)].legend = TRUE]

plt_savefig(p) ==
    LET q == plt_gcf(p) IN [q EXCEPT !.file = <<q.figs[Len(q.figs)]>>]

plt_close(p) ==
    IF Len(p.figs) = 0 THEN p ELSE [p EXCEPT !.figs = SubSeq(@, 1, Len(@) - 1)]

(* tools/graph_creator.py.  create_graph is a sequence of statements on     *)
(* pyplot; a frame is one invocation: the statement it is at (pc), the      *)
(* dataset of the loop (idx), what it has done so far.  outcome.at names    *)
(* the statement that raises ("read_json" of a malformed dataset, "plot"    *)
(* of a dataset without the column) and outcome.idx its dataset.            *)
GraphFrame(args, outcome) ==
    [pc |-> "figure", idx |-> 1, args |-> args, outcome |-> outcome, calls |-> <<>>,
     result |-> NoOutput, errs |-> <<>>, fault |-> NoFault]

Label(args, idx) ==
    IF Len(args.labels) > 0 /\ idx <= Len(args.labels)
    THEN args.labels[idx]
    ELSE "data" \o ToString(idx)

(* A create_graph that draws every kind it does not know as a line. *)
RenderCall_Default(graph_type) ==
    IF graph_type = "bar" THEN "plt.bar" ELSE "plt.plot"

(* The pyplot function the loop body calls for a kind, "" if none. *)
RenderCall(graph_type) ==
    IF graph_type = "bar" THEN "plt.bar"
    ELSE IF graph_type = "line" THEN "plt.plot"
    ELSE ""

Artist(frame) ==
    [kind |-> RenderCall(frame.args.graph_type), data |-> frame.args.data[frame.idx],
     x |-> frame.args.x_axis, y |-> frame.args.y_axis,
     label |-> Label(frame.args, frame.idx)]

GraphRaises(frame, stmt) ==
    /\ frame.outcome.fault # NoFault
    /\ frame.outcome.at = stmt
    /\ frame.outcome.idx = frame.idx

GraphExcept(frame) ==
    [frame EXCEPT !.pc = "done",
                  !.fault = frame.outcome.fault,
                  !.errs = <<error_handler(frame.outcome.fault)>>,
                  !.result = "An error occurred while creating the graph: "
                                \o frame.outcome.fault.msg]

(* A loop that leaves after its first dataset. *)
GraphLoopNext_FirstOnly(frame) == [frame EXCEPT !.pc = "title"]

GraphLoopNext(frame) ==
    IF frame.idx < Len(frame.args.data)
    THEN [frame EXCEPT !.pc = "read_json", !.idx = @ + 1]
    ELSE [frame EXCEPT !.pc = "title"]

GraphDid(frame, next, call) == [frame EXCEPT !.pc = next, !.calls = Append(@, call)]

(* One statement of create_graph on the pyplot state p. *)
create_graph_stmt(frame, p) ==
    LET args == frame.args
    IN CASE frame.pc = "figure" ->
              [frame |-> GraphDid(frame,
                                  IF Len(args.data) = 0 THEN "title" ELSE "read_json",
                                  Call("plt.figure", <<8, 4>>)),
               plt |-> plt_figure(p)]
         [] frame.pc = "read_json" ->
              IF GraphRaises(frame, "read_json")
              THEN [frame |-> GraphExcept(frame), plt |-> p]
              ELSE [frame |-> GraphDid(frame, "plot",
                                       Call("pd.read_json", args.data[frame.idx])),
                    plt |-> p]
         [] frame.pc = "plot" ->
              IF RenderCall(args.graph_type) = ""
              THEN [frame |-> GraphLoopNext(frame), plt |-> p]
              ELSE IF GraphRaises(frame, "plot")
              THEN [frame |-> GraphExcept(frame), plt |-> p]
              ELSE [frame |-> [GraphLoopNext(frame) EXCEPT
                                  !.calls = Append(@, Call(RenderCall(args.graph_type),
                                                           Artist(frame)))],
                    plt |-> plt_draw(p, Artist(frame))]
         [] frame.pc = "title" ->
              [frame |-> GraphDid(frame, "xlabel", Call("plt.title", args.graph_title)),
               plt |-> plt_title(p, args.graph_title)]
         [] frame.pc = "xlabel" ->
              [frame |-> GraphDid(frame, "ylabel", Call("plt.xlabel", args.x_axis)),
               plt |-> plt_xlabel(p, args.x_axis)]
         [] frame.pc = "ylabel" ->
              [frame |-> GraphDid(frame, "legend", Call("plt.ylabel", args.y_axis)),
               plt |-> plt_ylabel(p, args.y_axis)]
         [] frame.pc = "legend" ->
              [frame |-> GraphDid(frame, "tight_layout", Call("plt.legend", "best")),
               plt |-> plt_legend(p)]
         [] frame.pc = "tight_layout" ->
              [frame |-> GraphDid(frame, "savefig", Call("plt.tight_layout", "")),
               plt |-> p]
         [] frame.pc = "savefig" ->
              [frame |-> GraphDid(frame, "close", Call("plt.savefig", "graph.png")),
               plt |-> plt_savefig(p)]
         [] frame.pc = "close" ->
              [frame |-> [GraphDid(frame, "done", Call("plt.close", "")) EXCEPT
                            !.result = args.graph_title \o ": Graph of type '"
                                          \o args.graph_type \o "' created successfully."],
               plt |-> plt_close(p)]

(* What create_graph returns to its caller once its frame is done. *)
GraphReturn(frame, p) ==
    [result |-> frame.result, errs |-> frame.errs, fault |-> frame.fault,
     raised |-> NoFault, calls |-> frame.calls, data |-> <<>>, plt |-> p]

(* The statements of one invocation run to its return with no other thread  *)
(* in between; s is the invocation after its next statement.                *)
RECURSIVE create_graph_run(_, _)
create_graph_run(frame, p) ==
    IF frame.pc = "done"
    THEN GraphReturn(frame, p)
    ELSE CHOOSE r \in {create_graph_run(s.frame, s.plt) :
                          s \in {create_graph_stmt(frame, p)}} : TRUE

(* A create_graph whose try block does not cover the failing statement. *)
create_graph_Uncaught(args, outcome, p) ==
    LET r == create_graph_run(GraphFrame(args, outcome), p)
    IN IF r.fault # NoFault
       THEN [r EXCEPT !.result = "", !.errs = <<>>, !.raised = r.fault]
       ELSE r

create_graph(args, outcome, p) == create_graph_run(GraphFrame(args, outcome), p)

(* tools/date_tool.py *)
DefaultFormat == "%Y-%m-%d"

(* The explored runs take place on one day. *)
Today == <<2023, 1, 1>>
TodayISO == "2023-01-01"
TodayUS == "01/01/2023"

Strftime(format) == FormatDate(Today, format)

(* A fallback that formats with the requested format again. *)
FallbackFormat_Requested(args) == args.format

FallbackFormat(args) == DefaultFormat

get_current_date(args, outcome) ==
    IF outcome.fault # NoFault
    THEN AdapterReturn(Strftime(FallbackFormat(args)), <<error_handler(outcome.fault)>>,
                       outcome.fault,
                       <<Call("datetime.now.strftime", args.format),
                         Call("date.today.strftime", FallbackFormat(args))>>,
                       <<>>)
    ELSE AdapterReturn(Strftime(args.format), <<>>, NoFault,
                       <<Call("datetime.now.strftime", args.format)>>, <<>>)

(* The StructuredTool registrations: the name the LLM requests a tool by.   *)
ToolNames == {"get_stock_history", "retrieve_documents", "create_graph",
              "get_current_date"}

(* An adapter that touches no pyplot state returns it as it found it. *)
Returned(r, p) ==
    [result |-> r.result, errs |-> r.errs, fault |-> r.fault, raised |-> r.raised,
     calls |-> r.calls, data |-> r.data, plt |-> p]

InvokeTool(name, args, outcome, p) ==
    CASE name = "get_stock_history" -> Returned(get_stock_history(args, outcome), p)
      [] name = "retrieve_documents" -> Returned(retrieve(args, outcome), p)
      [] name = "create_graph" -> create_graph(args, outcome, p)
      [] name = "get_current_date" -> Returned(get_current_date(args, outcome), p)

(* The args_schema of each registration, as pydantic enforces it: the       *)
(* fields without a default must be present, a field with a default takes   *)
(* it when absent.  enum=[...] of a Field is an annotation of the JSON      *)
(* schema shown to the LLM; DeclaredEnum records it.                        *)
RequiredFields(name) ==
    CASE name = "get_stock_history" -> {"ticker", "start", "end"}
      [] name = "retrieve_documents" -> {"question"}
      [] name = "create_graph" ->
            {"graph_type", "data", "graph_title", "x_axis", "y_axis", "labels"}
      [] name = "get_current_date" -> {}

DeclaredEnum(name) ==
    CASE name = "get_stock_history" -> [ticker |-> {"RNO.PA", "^FCHI"}]
      [] name = "create_graph" -> [graph_type |-> {"bar", "line"}]
      [] OTHER -> <<>>

ConformsToEnum(name, args) ==
    \A f \in DOMAIN DeclaredEnum(name) \cap DOMAIN args : args[f] \in DeclaredEnum(name)[f]

Validates(name, args) == RequiredFields(name) \subseteq DOMAIN args

WithDefaults(name, args) ==
    IF name = "get_current_date" /\ "format" \notin DOMAIN args
    THEN [format |-> DefaultFormat]
    ELSE args

(* What the collaborators of each adapter can do on one call. *)
StockFaults == {[msg |-> "Network error", type |-> "ConnectionError"]}
RetrieveFaults == {[msg |-> "Database error", type |-> "RuntimeError"]}
GraphFaults == {[msg |-> "Expected object or value", type |-> "ValueError"],
                [msg |-> "'sales'", type |-> "KeyError"]}
DateFaults == {[msg |-> "Format error", type |-> "ValueError"]}
LLMFaults == {[msg |-> "API error", type |-> "ChatGoogleGenerativeAIError"]}

(* The statement of create_graph that raises each fault. *)
GraphFaultAt(f) == IF f.type = "ValueError" THEN "read_json" ELSE "plot"

(* Row i of the data provider's answer, rows being in ascending date. *)
ProviderRow(i) == [date |-> <<2023, 1, i>>, Open |-> 1000 + 5 * (i - 1),
                   Close |-> 1010 + 5 * (i - 1)]

RetrievedDoc(i) == "Document " \o ToString(i)

Outcomes(name) ==
    CASE name = "get_stock_history" ->
            {[fault |-> NoFault, rows |-> <<ProviderRow(1)>>]}
            \cup {[fault |-> f, rows |-> <<>>] : f \in StockFaults}
      [] name = "retrieve_documents" ->
            {[fault |-> NoFault, at |-> "", docs |-> <<RetrievedDoc(1), RetrievedDoc(2)>>]}
            \cup {[fault |-> f, at |-> "invoke", docs |-> <<>>] : f \in RetrieveFaults}
      [] name = "create_graph" ->
            {[fault |-> NoFault, at |-> "", idx |-> 0]}
            \cup {[fault |-> f, at |-> GraphFaultAt(f), idx |-> 1] : f \in GraphFaults}
      [] name = "get_current_date" ->
            {[fault |-> NoFault]} \cup {[fault |-> f] : f \in DateFaults}

(* Dataset i of a chart request: one JSON record per dataset. *)
DataSet(i) == "[{\"year\":" \o ToString(2019 + i) \o ",\"sales\":1000}]"

(* The requests the LLM emits in the explored runs. *)
ToolRequests ==
    {[name |-> "get_stock_history",
      args |-> [ticker |-> "RNO.PA", start |-> "2023-01-01", end |-> "2023-01-02"]],
     [name |-> "retrieve_documents", args |-> [question |-> "q"]],
     [name |-> "create_graph",
      args |-> [graph_type |-> "bar", data |-> <<DataSet(1)>>,
                graph_title |-> "Sales", x_axis |-> "year", y_axis |-> "sales",
                labels |-> <<>>]],
     [name |-> "get_current_date", args |-> [format |-> "%Y-%m-%d"]],
     [name |-> "get_current_date", args |-> [format |-> "%m/%d/%Y"]]}

ToolCall(request, id) == [name |-> request.name, args |-> request.args, id |-> id]

---------------------------------------------------------------------------
(* main.query_rewriter: the node function.  outcome tells what the three    *)
(* statements of its try block do: construct, format and invoke are the     *)
(* exceptions they raise (NoFault if none), content the rewritten text.     *)

NodeReturn(state, errs) == [state |-> state, errs |-> errs]

RewriterFault(outcome) ==
    IF outcome.construct # NoFault THEN outcome.construct
    ELSE IF outcome.format # NoFault THEN outcome.format
    ELSE outcome.invoke

(* A rewriter that puts the rewritten text in front of the question. *)
query_rewriter_InsertsBeforeQuery(state, outcome) ==
    IF RewriterFault(outcome) # NoFault
    THEN NodeReturn(state, <<error_handler(RewriterFault(outcome))>>)
    ELSE NodeReturn([state EXCEPT !.messages =
                        <<@[1], HumanMessage(outcome.content)>> \o Tail(@)],
                    <<>>)

(* A rewriter that reports its failure as a turn of the conversation. *)
query_rewriter_FailureTurn(state, outcome) ==
    IF RewriterFault(outcome) # NoFault
    THEN NodeReturn([state EXCEPT !.messages =
                        Append(@, HumanMessage(RewriterFault(outcome).msg))],
                    <<error_handler(RewriterFault(outcome))>>)
    ELSE NodeReturn([state EXCEPT !.messages = Append(@, HumanMessage(outcome.content))],
                    <<>>)

(* A rewriter that puts the rewritten text in the place of the question. *)
query_rewriter_ReplacesQuery(state, outcome) ==
    IF RewriterFault(outcome) # NoFault
    THEN NodeReturn(state, <<error_handler(RewriterFault(outcome))>>)
    ELSE NodeReturn([state EXCEPT !.messages =
                        [@ EXCEPT ![Len(@)] = HumanMessage(outcome.content)]],
                    <<>>)

(* A rewriter that stores the rewritten text as the query of the state. *)
query_rewriter_OverwritesQuery(state, outcome) ==
    IF RewriterFault(outcome) # NoFault
    THEN NodeReturn(state, <<error_handler(RewriterFault(outcome))>>)
    ELSE NodeReturn([messages |-> Append(state.messages, HumanMessage(outcome.content)),
                     original_user_query |-> outcome.content],
                    <<>>)

query_rewriter(state, outcome) ==
    IF RewriterFault(outcome) # NoFault
    THEN NodeReturn(state, <<error_handler(RewriterFault(outcome))>>)
    ELSE NodeReturn([state EXCEPT !.messages = Append(@, HumanMessage(outcome.content))],
                    <<>>)

RewriterOutcomes ==
    {[construct |-> NoFault, format |-> NoFault, invoke |-> NoFault, content |-> t] :
        t \in RewrittenTexts}
    \cup {[construct |-> f, format |-> NoFault, invoke |-> NoFault, content |-> ""] :
            f \in LLMFaults}
    \cup {[construct |-> NoFault, format |-> f, invoke |-> NoFault, content |-> ""] :
            f \in LLMFaults}
    \cup {[construct |-> NoFault, format |-> NoFault, invoke |-> f, content |-> ""] :
            f \in LLMFaults}

(* main.chatbot: response is the turn llm_with_tools.invoke returned.       *)
chatbot(state, response) ==
    [state EXCEPT !.messages = Append(@, response)]

---------------------------------------------------------------------------
(* main.build_graph: the edges, and the routing the compiled graph does     *)
(* after a node: every target of an edge leaving the node is scheduled,     *)
(* END schedules nothing, and the run is over when nothing is scheduled.    *)

Nodes == {"query_rewriter", "chatbot", "tools"}

(* A graph whose unconditional edge out of chatbot leads to tools. *)
Edges_ChatbotToTools == {<<START, "query_rewriter">>,
                         <<"query_rewriter", "chatbot">>,
                         <<"tools", "chatbot">>,
                         <<"chatbot", "tools">>}

(* A graph whose edge out of tools leads back to the rewriter. *)
Edges_ToolsToRewriter == {<<START, "query_rewriter">>,
                          <<"query_rewriter", "chatbot">>,
                          <<"tools", "query_rewriter">>,
                          <<"chatbot", END>>}

Edges == {<<START, "query_rewriter">>,
          <<"query_rewriter", "chatbot">>,
          <<"tools", "chatbot">>,
          <<"chatbot", END>>}

ConditionalEdges == {"chatbot"}

(* tools_condition that routes on the kind of the turn, not on its requests. *)
tools_condition_AnyAssistantTurn(state) ==
    IF Len(state.messages) > 0 /\ Last(state.messages).type = "ai"
    THEN "tools"
    ELSE END

tools_condition(state) ==
    IF Len(state.messages) > 0
       /\ Last(state.messages).type = "ai"
       /\ Len(Last(state.messages).tool_calls) > 0
    THEN "tools"
    ELSE END

NextNodes(node, state) ==
    ({e[2] : e \in {d \in Edges : d[1] = node}}
        \cup (IF node \in ConditionalEdges THEN {tools_condition(state)} ELSE {}))
    \ {END}

(* ToolNode(tools): the requests of the latest assistant turn, and the      *)
(* result turns built from the outputs, one per request in request order.   *)
(* A tools node that keeps the first request of every tool name only. *)
ToolNodeCalls_OnePerName(msgs) ==
    LET calls == Last(msgs).tool_calls
        First(c) == \A j \in 1..Len(calls) : calls[j].name = c.name => calls[j].id >= c.id
    IN SelectSeq(calls, First)

ToolNodeCalls(msgs) == Last(msgs).tool_calls

(* A tools node that answers the first request of the turn only. *)
ToolNodeOutputs_FirstOnly(calls, outs) ==
    <<ToolMessage(outs[1], calls[1].name, calls[1].id)>>

(* Result turns collected in the reverse of the request order. *)
ToolNodeOutputs_Reversed(calls, outs) ==
    [i \in 1..Len(calls) |->
        ToolMessage(outs[Len(calls) + 1 - i], calls[Len(calls) + 1 - i].name,
                    calls[Len(calls) + 1 - i].id)]

ToolNodeOutputs(calls, outs) ==
    [i \in 1..Len(calls) |-> ToolMessage(outs[i], calls[i].name, calls[i].id)]

(* The tools node on one request: the arguments go through the            *)
(* args_schema of the tool; the adapter runs only if they pass, and an       *)
(* exception of either becomes the text of the result turn.                  *)
ToolNodeInvokes(call) == Validates(call.name, call.args)

ToolNodeRunOne(call, outcome, p) ==
    IF ~ToolNodeInvokes(call)
    THEN Returned(AdapterReturn("Error: ValidationError('Field required')"
                                    \o "\n Please fix your mistakes.",
                                <<>>, NoFault, <<>>, <<>>), p)
    ELSE LET r == InvokeTool(call.name, WithDefaults(call.name, call.args), outcome, p)
         IN IF r.raised # NoFault
            THEN [r EXCEPT !.result = "Error: " \o r.raised.msg
                                         \o "\n Please fix your mistakes."]
            ELSE r

---------------------------------------------------------------------------
(* The state machine *)

State == [messages |-> messages, original_user_query |-> original_user_query]

RECURSIVE TotalCalls(_)
TotalCalls(msgs) ==
    IF Len(msgs) = 0 THEN 0
    ELSE Len(msgs[1].tool_calls) + TotalCalls(Tail(msgs))

(* What is kept of the turns of a run that is over. *)
TurnsOf(msgs) ==
    [i \in 1..Len(msgs) |->
        [id |-> msgs[i].id, type |-> msgs[i].type, requests |-> Len(msgs[i].tool_calls)]]

RECURSIVE SumRequests(_)
SumRequests(ts) ==
    IF Len(ts) = 0 THEN 0 ELSE ts[1].requests + SumRequests(Tail(ts))

RECURSIVE CallsInRuns(_)
CallsInRuns(runs) ==
    IF Len(runs) = 0 THEN 0
    ELSE SumRequests(runs[1]) + CallsInRuns(Tail(runs))

SeqsUpTo(S, n) == UNION {[1..k -> S] : k \in 0..n}

(* The turns the tool-bound LLM can answer with at this point of the run. *)
LLMResponses ==
    {AIMessage(c, [i \in 1..Len(reqs) |-> ToolCall(reqs[i], 100 * (turns + 1) + i)],
               nextId) :
        c \in AnswerTexts, reqs \in SeqsUpTo(ToolRequests,
                                      MaxCalls - TotalCalls(messages) - CallsInRuns(finished))}

Step(op, fault, idx, content) ==
    [op |-> op, fault |-> fault, idx |-> idx, content |-> content]

(* The slot of a request whose adapter a worker of the tools node has       *)
(* entered and not yet left.                                                *)
Executing == "<executing>"

(* Two requests of the UI whose runs overlap. *)
ConcurrentRuns == {1, 2}

NoFrame == [pc |-> "idle"]
NoCall == [n |-> 0, name |-> "", args |-> <<>>, outcome |-> [fault |-> NoFault],
           invoked |-> FALSE]
NoReturn == Returned(AdapterReturn("", <<>>, NoFault, <<>>, <<>>), PltInit)

Init ==
    /\ pc = "idle"
    /\ question = NoQuery
    /\ messages = <<>>
    /\ original_user_query = NoQuery
    /\ active = {}
    /\ dispatched = FALSE
    /\ outputs = <<>>
    /\ errorLog = <<>>
    /\ llm_input = <<>>
    /\ llm_calls = 0
    /\ nextId = 1
    /\ turns = 0
    /\ answer = NoAnswer
    /\ last = Step("", NoFault, 0, "")
    /\ trace = <<>>
    /\ finished = <<>>
    /\ plt = PltInit
    /\ frames = [t \in ConcurrentRuns |-> NoFrame]
    /\ tcall = NoCall
    /\ tret = NoReturn

(* main.run up to graph.invoke: builds the LLM binding and the graph, then  *)
(* hands the graph the initial State.  build_graph compiles a new graph on  *)
(* every call, so the channels of the graph start empty; prev is what the   *)
(* channel of the run before held.                                          *)
(* A graph that keeps the channel of the run before (a checkpointed thread). *)
NewChannel_Persisting(prev) == prev

NewChannel(prev) == <<>>

(* A run that catches the construction fault and answers with a placeholder. *)
StartFails_Handled(q) ==
    \E f \in LLMFaults :
        /\ pc' = "returned"
        /\ question' = q
        /\ last' = Step("run", f, 0, "")
        /\ messages' = <<>>
        /\ original_user_query' = NoQuery
        /\ active' = {}
        /\ answer' = f.msg
        /\ trace' = <<>>
        /\ llm_input' = <<>>
        /\ llm_calls' = 0
        /\ errorLog' = Append(errorLog, error_handler(f))
        /\ UNCHANGED <<dispatched, outputs, nextId, turns>>

StartFails(q) ==
    \E f \in LLMFaults :
        /\ pc' = "failed"
        /\ question' = q
        /\ last' = Step("run", f, 0, "")
        /\ messages' = <<>>
        /\ original_user_query' = NoQuery
        /\ active' = {}
        /\ answer' = NoAnswer
        /\ trace' = <<>>
        /\ llm_input' = <<>>
        /\ llm_calls' = 0
        /\ UNCHANGED <<dispatched, outputs, errorLog, nextId, turns>>

StartInvokes(q) ==
    /\ LET input == <<SystemMessage(SYSTEM_PROMPT), HumanMessage(q)>>
       IN /\ messages' = ChannelWrite(NewChannel(messages), input, FALSE, nextId)
          /\ nextId' = nextId + IdsUsed(NewChannel(messages), input, FALSE)
          /\ original_user_query' = q
          /\ active' = NextNodes(START, [messages |-> input, original_user_query |-> q])
    /\ pc' = "invoke"
    /\ question' = q
    /\ last' = Step("run", NoFault, 0, "")
    /\ answer' = NoAnswer
    /\ trace' = <<>>
    /\ llm_input' = <<>>
    /\ llm_calls' = 0
    /\ UNCHANGED <<dispatched, outputs, errorLog, turns>>

RunFails(q) ==
    /\ pc = "idle"
    /\ StartFails(q)
    /\ UNCHANGED finished
    /\ UNCHANGED <<plt, frames, tcall, tret>>

RunInvokes(q) ==
    /\ pc = "idle"
    /\ StartInvokes(q)
    /\ UNCHANGED finished
    /\ UNCHANGED <<plt, frames, tcall, tret>>

Run == \E q \in Questions : RunFails(q) \/ RunInvokes(q)

(* gradio_app.generate_response calls run once per submitted question: a    *)
(* further run starts when the one before has returned or failed.           *)
RunAgainFails(q) ==
    /\ pc \in {"returned", "failed"}
    /\ Len(finished) + 1 < MaxRuns
    /\ finished' = Append(finished, TurnsOf(messages))
    /\ UNCHANGED <<plt, frames, tcall, tret>>
    /\ StartFails(q)

RunAgainInvokes(q) ==
    /\ pc \in {"returned", "failed"}
    /\ Len(finished) + 1 < MaxRuns
    /\ finished' = Append(finished, TurnsOf(messages))
    /\ UNCHANGED <<plt, frames, tcall, tret>>
    /\ StartInvokes(q)

RunAgain == \E q \in Questions : RunAgainFails(q) \/ RunAgainInvokes(q)

(* graph.invoke is called without a config: the graph runs under the        *)
(* library's default recursion_limit, the number of steps (one per node     *)
(* execution here) after which a graph that still has a node scheduled is   *)
(* stopped with GraphRecursionError.                                        *)
RecursionLimit == 25

GraphRecursionError ==
    [msg |-> "Recursion limit of 25 reached without hitting a stop condition.",
     type |-> "GraphRecursionError"]

(* A graph.invoke that counts no steps. *)
OutOfSteps_Never(steps) == FALSE

OutOfSteps(steps) == steps >= RecursionLimit

QueryRewriterStep ==
    /\ pc = "invoke"
    /\ ~OutOfSteps(Len(trace))
    /\ "query_rewriter" \in active
    /\ \E outcome \in RewriterOutcomes, aliased \in BOOLEAN :
        LET r == query_rewriter(State, outcome)
            written == ChannelWrite(messages, r.state.messages, aliased, nextId)
        IN /\ messages' = written
           /\ nextId' = nextId + IdsUsed(messages, r.state.messages, aliased)
           /\ original_user_query' = r.state.original_user_query
           /\ errorLog' = errorLog \o r.errs
           /\ active' = NextNodes("query_rewriter",
                                  [messages |-> written,
                                   original_user_query |-> r.state.original_user_query])
           /\ last' = Step("query_rewriter", RewriterFault(outcome), 0, outcome.content)
    /\ UNCHANGED <<pc, question, dispatched, outputs, llm_input, llm_calls, turns, answer>>
    /\ trace' = Append(trace, "query_rewriter")
    /\ UNCHANGED finished
    /\ UNCHANGED <<plt, frames, tcall, tret>>

ChatbotRaises ==
    /\ pc = "invoke"
    /\ ~OutOfSteps(Len(trace))
    /\ "chatbot" \in active
    /\ turns < MaxTurns
    /\ \E f \in LLMFaults :
        /\ pc' = "failed"
        /\ llm_input' = messages
        /\ llm_calls' = llm_calls + 1
        /\ turns' = turns + 1
        /\ last' = Step("chatbot", f, 0, "")
    /\ UNCHANGED <<question, messages, original_user_query, active, dispatched, outputs,
                   errorLog, nextId, answer>>
    /\ trace' = Append(trace, "chatbot")
    /\ UNCHANGED finished
    /\ UNCHANGED <<plt, frames, tcall, tret>>

ChatbotAnswers(responses) ==
    /\ pc = "invoke"
    /\ ~OutOfSteps(Len(trace))
    /\ "chatbot" \in active
    /\ \E response \in responses, aliased \in BOOLEAN :
        LET r == chatbot(State, response)
            written == ChannelWrite(messages, r.messages, aliased, nextId + 1)
        IN /\ messages' = written
           /\ nextId' = nextId + 1 + IdsUsed(messages, r.messages, aliased)
           /\ original_user_query' = r.original_user_query
           /\ active' = NextNodes("chatbot",
                                  [messages |-> written,
                                   original_user_query |-> r.original_user_query])
           /\ last' = Step("chatbot", NoFault, 0, response.content)
    /\ llm_input' = messages
    /\ llm_calls' = llm_calls + 1
    /\ turns' = turns + 1
    /\ UNCHANGED <<pc, question, dispatched, outputs, errorLog, answer>>
    /\ trace' = Append(trace, "chatbot")
    /\ UNCHANGED finished
    /\ UNCHANGED <<plt, frames, tcall, tret>>

ChatbotStep == turns < MaxTurns /\ ChatbotAnswers(LLMResponses)

(* The tools node runs the requests on a thread pool: it starts them all,   *)
(* each runs to its result on its own, and the results are collected.       *)
ToolsDispatch ==
    /\ pc = "invoke"
    /\ ~OutOfSteps(Len(trace))
    /\ "tools" \in active
    /\ ~dispatched
    /\ dispatched' = TRUE
    /\ outputs' = [i \in 1..Len(ToolNodeCalls(messages)) |-> NoOutput]
    /\ last' = Step("tools_dispatch", NoFault, 0, "")
    /\ UNCHANGED <<pc, question, messages, original_user_query, active, errorLog,
                   llm_input, llm_calls, nextId, turns, answer>>
    /\ trace' = Append(trace, "tools")
    /\ UNCHANGED finished
    /\ UNCHANGED <<plt, frames, tcall, tret>>

RunOneFrom(i, state) ==
    /\ pc = "invoke"
    /\ dispatched
    /\ outputs[i] = state
    /\ LET call == ToolNodeCalls(messages)[i]
       IN \E outcome \in Outcomes(call.name) :
            \E r \in {ToolNodeRunOne(call, outcome, plt)} :
               /\ outputs' = [outputs EXCEPT ![i] = r.result]
               /\ errorLog' = errorLog \o r.errs
               /\ plt' = r.plt
               /\ last' = Step("run_one", r.fault, i, r.result)
    /\ UNCHANGED <<pc, question, messages, original_user_query, active, dispatched,
                   llm_input, llm_calls, nextId, turns, answer>>
    /\ UNCHANGED trace
    /\ UNCHANGED finished
    /\ UNCHANGED <<frames, tcall, tret>>

RunOne(i) == RunOneFrom(i, NoOutput)

ToolsRun == \E i \in 1..Len(outputs) : RunOne(i)

ToolsCollect ==
    /\ pc = "invoke"
    /\ dispatched
    /\ \A i \in 1..Len(outputs) : outputs[i] # NoOutput
    /\ LET update == ToolNodeOutputs(ToolNodeCalls(messages), outputs)
           written == ChannelWrite(messages, update, FALSE, nextId)
       IN /\ messages' = written
          /\ nextId' = nextId + IdsUsed(messages, update, FALSE)
          /\ active' = NextNodes("tools",
                                 [messages |-> written,
                                  original_user_query |-> original_user_query])
    /\ dispatched' = FALSE
    /\ outputs' = <<>>
    /\ last' = Step("tools_collect", NoFault, 0, "")
    /\ UNCHANGED <<pc, question, original_user_query, errorLog, llm_input, llm_calls,
                   turns, answer>>
    /\ UNCHANGED trace
    /\ UNCHANGED finished
    /\ UNCHANGED <<plt, frames, tcall, tret>>

(* main.run after graph.invoke: the content of the last turn is the answer. *)
(* An answer taken from the first turn instead of the last. *)
FinalAnswer_FirstTurn(msgs) == msgs[1].content

FinalAnswer(msgs) == Last(msgs).content

RunReturns ==
    /\ pc = "invoke"
    /\ active = {}
    /\ ~dispatched
    /\ answer' = FinalAnswer(messages)
    /\ pc' = "returned"
    /\ last' = Step("return", NoFault, 0, "")
    /\ UNCHANGED <<question, messages, original_user_query, active, dispatched, outputs,
                   errorLog, llm_input, llm_calls, nextId, turns>>
    /\ UNCHANGED trace
    /\ UNCHANGED finished
    /\ UNCHANGED <<plt, frames, tcall, tret>>

Next ==
    \/ Run
    \/ QueryRewriterStep
    \/ ChatbotRaises
    \/ ChatbotStep
    \/ ToolsDispatch
    \/ ToolsRun
    \/ ToolsCollect
    \/ RunReturns

Spec == Init /\ [][Next]_vars

(* The code runs to completion on one thread of control and the pool's      *)
(* threads each run when started: no enabled step is postponed forever.     *)
FairSpec == Spec /\ WF_vars(Next)

(* The process serves one question after another. *)
NextRuns == Next \/ RunAgain

SpecRuns == Init /\ [][NextRuns]_vars

---------------------------------------------------------------------------
(* A run taken to the recursion limit: the LLM answers each chatbot step    *)
(* either with the final text or with one request for the current date,     *)
(* as many times as it likes.                                               *)
LoopRequest == [name |-> "get_current_date", args |-> [format |-> "%Y-%m-%d"]]

LoopResponses ==
    {AIMessage(c, reqs, nextId) :
        c \in AnswerTexts,
        reqs \in {<<>>, <<ToolCall(LoopRequest, 100 * (turns + 1) + 1)>>}}

ChatbotLoopStep == ChatbotAnswers(LoopResponses)

(* graph.invoke raises GraphRecursionError out of run. *)
RecursionLimitReached ==
    /\ pc = "invoke"
    /\ active # {}
    /\ ~dispatched
    /\ OutOfSteps(Len(trace))
    /\ pc' = "failed"
    /\ last' = Step("graph.invoke", GraphRecursionError, 0, "")
    /\ UNCHANGED <<question, messages, original_user_query, active, dispatched, outputs,
                   errorLog, llm_input, llm_calls, nextId, turns, answer, trace,
                   finished, plt, frames, tcall, tret>>

LoopNext ==
    \/ Run
    \/ QueryRewriterStep
    \/ ChatbotRaises
    \/ ChatbotLoopStep
    \/ ToolsDispatch
    \/ ToolsRun
    \/ ToolsCollect
    \/ RunReturns
    \/ RecursionLimitReached

LoopSpec == Init /\ [][LoopNext]_vars

---------------------------------------------------------------------------
(* Two runs whose tools nodes are each inside create_graph at the same      *)
(* time.  Everything else of a run (its LLM binding, its graph, its         *)
(* channels) is built by that run; pyplot and graph.png belong to the       *)
(* process.  The threads interleave between the statements of create_graph. *)
ConcurrentArgs(t) ==
    [graph_type |-> "bar", data |-> <<DataSet(t)>>,
     graph_title |-> "Chart of run " \o ToString(t), x_axis |-> "year",
     y_axis |-> "sales", labels |-> <<"run " \o ToString(t)>>]

ConcurrentCall(t) ==
    /\ frames[t].pc = "idle"
    /\ \E outcome \in Outcomes("create_graph") :
          frames' = [frames EXCEPT ![t] = GraphFrame(ConcurrentArgs(t), outcome)]
    /\ last' = Step("create_graph", NoFault, t, "idle")
    /\ UNCHANGED <<pc, question, messages, original_user_query, active, dispatched,
                   outputs, errorLog, llm_input, llm_calls, nextId, turns, answer,
                   trace, finished, plt, tcall, tret>>

ConcurrentStmt(t) ==
    /\ frames[t].pc \notin {"idle", "done"}
    /\ LET s == create_graph_stmt(frames[t], plt)
       IN /\ frames' = [frames EXCEPT ![t] = s.frame]
          /\ plt' = s.plt
          /\ errorLog' = errorLog \o s.frame.errs
          /\ last' = Step("create_graph", s.frame.fault, t, frames[t].pc)
    /\ UNCHANGED <<pc, question, messages, original_user_query, active, dispatched,
                   outputs, llm_input, llm_calls, nextId, turns, answer, trace,
                   finished, tcall, tret>>

(* The tools node maps the requests of the turn over a pool of worker       *)
(* threads: a worker enters the adapter of its request without waiting for  *)
(* the workers of the other requests, and the node returns when all of      *)
(* them have left.                                                          *)
PoolStart(i) ==
    /\ pc = "invoke"
    /\ dispatched
    /\ outputs[i] = NoOutput
    /\ outputs' = [outputs EXCEPT ![i] = Executing]
    /\ last' = Step("start_one", NoFault, i, "")
    /\ UNCHANGED <<pc, question, messages, original_user_query, active, dispatched,
                   errorLog, llm_input, llm_calls, nextId, turns, answer, trace,
                   finished, plt, frames, tcall, tret>>

PoolFinish(i) == RunOneFrom(i, Executing)

PoolRun == \E i \in 1..Len(outputs) : PoolStart(i) \/ PoolFinish(i)

(* A tools node that returns while a worker is still in its adapter. *)
PoolCollect_Early == ToolsCollect

PoolCollect == (\A i \in 1..Len(outputs) : outputs[i] # Executing) /\ ToolsCollect

PoolNext ==
    \/ Run
    \/ QueryRewriterStep
    \/ ChatbotRaises
    \/ ChatbotStep
    \/ ToolsDispatch
    \/ PoolRun
    \/ PoolCollect
    \/ RunReturns

PoolSpec == Init /\ [][PoolNext]_vars

ConcurrentNext == \E t \in ConcurrentRuns : ConcurrentCall(t) \/ ConcurrentStmt(t)

ConcurrentSpec == Init /\ [][ConcurrentNext]_vars

---------------------------------------------------------------------------
(* The tools node handling requests one at a time, over the requests an LLM *)
(* can emit (the args_schema is advice to it, not a constraint) and over    *)
(* what the collaborators of the adapters can answer.                       *)
MaxToolCalls == 2
MaxDatasets == 2
MaxRows == 2
MaxDocs == 2

GraphRequests ==
    {[name |-> "create_graph",
      args |-> [graph_type |-> k, data |-> [i \in 1..n |-> DataSet(i)],
                graph_title |-> "Sales", x_axis |-> "year", y_axis |-> "sales",
                labels |-> IF n = 1 THEN <<>> ELSE <<"Renault">>]] :
        k \in {"bar", "line", "pie"}, n \in 1..MaxDatasets}

StockRequests ==
    {[name |-> "get_stock_history",
      args |-> [ticker |-> t, start |-> "2023-01-01", end |-> "2023-01-03"]] :
        t \in {"RNO.PA", "AAPL"}}
    \cup {[name |-> "get_stock_history",
           args |-> [ticker |-> "RNO.PA", start |-> "2023-01-01"]]}

RetrieveRequests ==
    {[name |-> "retrieve_documents", args |-> [question |-> q]] :
        q \in {"q", "search_type=similarity k=1"}}

DateRequests ==
    {[name |-> "get_current_date", args |-> [format |-> f]] :
        f \in {"%Y-%m-%d", "%m/%d/%Y"}}
    \cup {[name |-> "get_current_date", args |-> <<>>]}

AdapterRequests == GraphRequests \cup StockRequests \cup RetrieveRequests \cup DateRequests

AdapterOutcomes(name) ==
    CASE name = "get_stock_history" ->
            {[fault |-> NoFault, rows |-> [i \in 1..k |-> ProviderRow(i)]] : k \in 0..MaxRows}
            \cup {[fault |-> f, rows |-> <<>>] : f \in StockFaults}
      [] name = "retrieve_documents" ->
            {[fault |-> NoFault, at |-> "", docs |-> [i \in 1..k |-> RetrievedDoc(i)]] :
                k \in 0..MaxDocs}
            \cup {[fault |-> f, at |-> a, docs |-> <<>>] :
                    f \in RetrieveFaults, a \in {"get_retriever", "invoke"}}
      [] name = "create_graph" ->
            {[fault |-> NoFault, at |-> "", idx |-> 0]}
            \cup {[fault |-> f, at |-> GraphFaultAt(f), idx |-> k] :
                    f \in GraphFaults, k \in 1..MaxDatasets}
      [] name = "get_current_date" -> Outcomes(name)

ToolStep ==
    /\ tcall.n < MaxToolCalls
    /\ \E request \in AdapterRequests : \E outcome \in AdapterOutcomes(request.name) :
          LET call == ToolCall(request, tcall.n + 1)
          IN \E r \in {ToolNodeRunOne(call, outcome, plt)} :
             /\ tcall' = [n |-> tcall.n + 1, name |-> call.name, args |-> call.args,
                          outcome |-> outcome, invoked |-> ToolNodeInvokes(call)]
             /\ tret' = r
             /\ plt' = r.plt
             /\ errorLog' = errorLog \o r.errs
    /\ UNCHANGED <<pc, question, messages, original_user_query, active, dispatched,
                   outputs, llm_input, llm_calls, nextId, turns, answer, last, trace,
                   finished, frames>>

ToolSpec == Init /\ [][ToolStep]_vars

---------------------------------------------------------------------------
(* Properties *)

HasToolCalls(m) == m.type = "ai" /\ Len(m.tool_calls) > 0

AssistantTurns(msgs) == {i \in 1..Len(msgs) : msgs[i].type = "ai"}

LatestAssistantTurn(msgs) ==
    msgs[CHOOSE i \in AssistantTurns(msgs) : \A j \in AssistantTurns(msgs) : j <= i]

(* The graph has nothing left to run: graph.invoke is over. *)
AtEnd == pc \in {"invoke", "returned"} /\ active = {}

ChatbotStepTaken == last'.op = "chatbot" /\ last'.fault = NoFault /\ turns' = turns + 1

(* C1: after every chatbot step the graph schedules the tools node if the   *)
(* turn just appended carries requests and nothing (end) otherwise; the run *)
(* is at end iff the latest chatbot turn has no requests; the tools node is *)
(* scheduled or in flight only after a turn that carries requests.          *)
C1_Routing ==
    ChatbotStepTaken =>
        /\ Last(messages').type = "ai"
        /\ active' = IF HasToolCalls(Last(messages')) THEN {"tools"} ELSE {}

C1_EndIffNoRequests ==
    pc \in {"invoke", "returned"} =>
        (AtEnd <=> /\ AssistantTurns(messages) # {}
                   /\ ~HasToolCalls(LatestAssistantTurn(messages)))

C1_ToolsOnlyAfterRequests ==
    /\ ("tools" \in active => HasToolCalls(Last(messages)))
    /\ (dispatched => "tools" \in active /\ Len(outputs) >= 1)
    /\ Cardinality(active) <= 1

C1_ChatbotRouting ==
    /\ [](C1_EndIffNoRequests /\ C1_ToolsOnlyAfterRequests)
    /\ [][C1_Routing]_vars

(* Both transitions have been taken: the run went through the tools node    *)
(* and then reached end.                                                    *)
C1_Witness ==
    /\ AtEnd
    /\ turns >= 2
    /\ \E i \in 1..Len(messages) : messages[i].type = "tool"

ToolsCollectTaken == dispatched /\ ~dispatched'

(* C2: one execution of the tools node on a turn with n >= 1 requests       *)
(* appends exactly n tool-result turns, the i-th carrying the name, the id  *)
(* and the output of the i-th request, and leaves the earlier turns alone.  *)
C2_Collect ==
    ToolsCollectTaken =>
        LET calls == Last(messages).tool_calls
            n == Len(calls)
        IN /\ n >= 1
           /\ Len(messages') = Len(messages) + n
           /\ IsPrefix(messages, messages')
           /\ \A i \in 1..n :
                LET t == messages'[Len(messages) + i]
                IN /\ t.type = "tool"
                   /\ t.tool_call_id = calls[i].id
                   /\ t.name = calls[i].name
                   /\ t.content = outputs[i]

C2_OneResultPerRequestInOrder == [][C2_Collect]_vars

(* The results of two requests for different tools have been collected. *)
C2_Witness ==
    /\ last.op = "tools_collect"
    /\ Len(messages) >= 3
    /\ Last(messages).type = "tool"
    /\ messages[Len(messages) - 1].type = "tool"
    /\ messages[Len(messages) - 1].name # Last(messages).name
    /\ HasToolCalls(messages[Len(messages) - 2])

RewriterStepTaken == "query_rewriter" \in active /\ last'.op = "query_rewriter"

(* C3: when a statement of the rewriter's try block raises, error_handler   *)
(* is called exactly once with that exception, messages and                 *)
(* original_user_query are as on entry, and the graph goes on to chatbot.   *)
C3_Step ==
    (RewriterStepTaken /\ last'.fault # NoFault) =>
        /\ Len(errorLog') = Len(errorLog) + 1
        /\ IsPrefix(errorLog, errorLog')
        /\ Last(errorLog') = error_handler(last'.fault)
        /\ messages' = messages
        /\ original_user_query' = original_user_query
        /\ pc' = "invoke"
        /\ active' = {"chatbot"}

C3_RewriterFailureContained == [][C3_Step]_vars

(* The rewriter failed and the chatbot step has run after it. *)
C3_Witness ==
    /\ last.op = "chatbot"
    /\ last.fault = NoFault
    /\ turns = 1
    /\ Len(errorLog) = 1
    /\ Len(messages) = 3
    /\ messages[2].type = "human"
    /\ messages[3].type = "ai"

(* C4: when the rewriter LLM call succeeds, the step appends exactly one    *)
(* human turn carrying the rewritten text after the system turn and the     *)
(* original human turn, which stay as they were.                            *)
C4_Step ==
    (RewriterStepTaken /\ last'.fault = NoFault) =>
        /\ Len(messages) = 2
        /\ Len(messages') = 3
        /\ messages'[1] = messages[1]
        /\ messages'[2] = messages[2]
        /\ messages'[1].type = "system"
        /\ messages'[2].type = "human"
        /\ messages'[2].content = question
        /\ messages'[3].type = "human"
        /\ messages'[3].content = last'.content
        /\ last'.content \in RewrittenTexts
        /\ errorLog' = errorLog

C4_RewriterAppendsOneHumanTurn == [][C4_Step]_vars

C4_Witness ==
    /\ last.op = "query_rewriter"
    /\ last.fault = NoFault
    /\ Len(messages) = 3
    /\ messages[3].content \in RewrittenTexts
    /\ messages[2].content = question

(* C5: each execution of the chatbot step invokes the tool-bound LLM once,  *)
(* with the whole of messages, and after the reducer has merged the state   *)
(* the node returned, messages is longer by exactly one assistant turn.     *)
C5_Step ==
    ChatbotStepTaken =>
        /\ llm_calls' = llm_calls + 1
        /\ llm_input' = messages
        /\ Len(messages') = Len(messages) + 1
        /\ IsPrefix(messages, messages')
        /\ Last(messages').type = "ai"
        /\ Last(messages').content = last'.content

C5_ChatbotAppendsOneAssistantTurn == [][C5_Step]_vars

(* A chatbot step that ran on a conversation holding tool results. *)
C5_Witness ==
    /\ last.op = "chatbot"
    /\ last.fault = NoFault
    /\ turns >= 2
    /\ llm_calls = turns
    /\ Len(llm_input) >= 4
    /\ Last(llm_input).type = "tool"
    /\ Last(messages).type = "ai"

(* C6: messages is append-only during a run: every step leaves the turns    *)
(* it found in place and in order, and no turn occurs twice.                *)
C6_NoDuplicates ==
    \A i, j \in 1..Len(messages) : i # j => messages[i].id # messages[j].id

C6_MessagesAppendOnly ==
    /\ [][IsPrefix(messages, messages')]_vars
    /\ []C6_NoDuplicates

(* All three nodes have appended to messages. *)
C6_Witness ==
    /\ Len(messages) >= 6
    /\ messages[3].type = "human"
    /\ \E i, j \in 4..Len(messages) :
        i < j /\ messages[i].type = "tool" /\ messages[j].type = "ai"

(* C7: original_user_query is the question passed to run in every state    *)
(* of the run, whatever the nodes have done.                                *)
C7_OriginalQueryUnchanged ==
    /\ (pc \in {"invoke", "returned"} => original_user_query = question)
    /\ (pc = "failed" => original_user_query \in {NoQuery, question})

(* The run is over, the rewriter succeeded and the tools node ran. *)
C7_Witness ==
    /\ pc = "returned"
    /\ Len(messages) >= 5
    /\ messages[3].type = "human"
    /\ messages[3].content # question
    /\ original_user_query = question
    /\ \E i \in 1..Len(messages) : messages[i].type = "tool"

(* The chatbot step has just produced a turn without requests. *)
FinalTurnProduced ==
    /\ pc = "invoke"
    /\ last.op = "chatbot"
    /\ last.fault = NoFault
    /\ ~HasToolCalls(Last(messages))

(* The exploration stops a run that asks for more chatbot steps. *)
TurnBoundReached == "chatbot" \in active /\ turns >= MaxTurns

NoNodeExecutes ==
    UNCHANGED <<messages, original_user_query, active, dispatched, outputs, errorLog,
                llm_input, llm_calls, nextId, turns>>

(* C8: with every call returning, once the chatbot step has produced a turn *)
(* without requests the run reaches end and run returns; a run in progress  *)
(* always has a next step; and at end no node executes any more.            *)
C8_RunTerminates ==
    /\ FinalTurnProduced ~> (pc = "returned" /\ AtEnd)
    /\ [](pc = "invoke" /\ ~TurnBoundReached => ENABLED Next)
    /\ [][AtEnd => NoNodeExecutes]_vars

(* A run that went round the chatbot/tools loop twice has returned. *)
C8_Witness ==
    /\ pc = "returned"
    /\ turns = 3
    /\ AtEnd
    /\ Cardinality({i \in 1..Len(messages) : HasToolCalls(messages[i])}) = 2

(* C9: the value run returns is the content of the last turn of messages,   *)
(* and that turn is an assistant turn without requests.                     *)
C9_AnswerIsFinalAssistantTurn ==
    pc = "returned" =>
        /\ answer = Last(messages).content
        /\ Last(messages).type = "ai"
        /\ Len(Last(messages).tool_calls) = 0
        /\ answer \in AnswerTexts

(* run has returned after a run in which tools were executed. *)
C9_Witness ==
    /\ pc = "returned"
    /\ answer \in AnswerTexts
    /\ Len(messages) >= 2
    /\ messages[Len(messages) - 1].type = "tool"

RunOneTaken == last'.op = "run_one" /\ dispatched /\ dispatched'

FaultOutcomes(name) == {o \in Outcomes(name) : o.fault # NoFault}

(* C10 as stated: a failing adapter returns a failure string that is the    *)
(* same for every fault (and is not a result it returns on success), calls  *)
(* error_handler exactly once and raises nothing.                           *)
C10_FixedString ==
    (RunOneTaken /\ last'.fault # NoFault) =>
        LET call == ToolNodeCalls(messages)[last'.idx]
        IN /\ \A o \in FaultOutcomes(call.name) :
                outputs'[last'.idx] = InvokeTool(call.name, call.args, o, plt).result
           /\ \A o \in Outcomes(call.name) \ FaultOutcomes(call.name) :
                outputs'[last'.idx] # InvokeTool(call.name, call.args, o, plt).result
           /\ Len(errorLog') = Len(errorLog) + 1
           /\ pc' = "invoke"

C10_Original == [][C10_FixedString]_vars

(* C10 as amended: a failing adapter calls error_handler exactly once with  *)
(* the fault and raises nothing; get_stock_history and retrieve return      *)
(* their fixed failure strings, create_graph returns its fixed prefix       *)
(* followed by the message of the fault, and get_current_date returns       *)
(* today's date in the default format.                                      *)
C10_Step ==
    (RunOneTaken /\ last'.fault # NoFault) =>
        LET call == ToolNodeCalls(messages)[last'.idx]
        IN /\ Len(errorLog') = Len(errorLog) + 1
           /\ IsPrefix(errorLog, errorLog')
           /\ Last(errorLog') = error_handler(last'.fault)
           /\ pc' = "invoke"
           /\ outputs'[last'.idx] =
                CASE call.name = "get_stock_history" ->
                        "An error occurred while fetching stock history."
                  [] call.name = "retrieve_documents" ->
                        "An error occurred while retrieving documents."
                  [] call.name = "create_graph" ->
                        "An error occurred while creating the graph: " \o last'.fault.msg
                  [] call.name = "get_current_date" -> TodayISO

C10_AdapterFaultContained == [][C10_Step]_vars

(* Two create_graph requests of one turn have failed with different faults. *)
C10_Witness ==
    /\ dispatched
    /\ Len(outputs) = 2
    /\ \A i \in 1..2 : ToolNodeCalls(messages)[i].name = "create_graph"
    /\ \A i \in 1..2 : outputs[i] # NoOutput
    /\ outputs[1] # outputs[2]
    /\ Len(errorLog) >= 2
    /\ errorLog[Len(errorLog)] # errorLog[Len(errorLog) - 1]

(* C11: the node order of a run is fixed: query_rewriter runs first and     *)
(* only once, chatbot runs right after it whether it failed or not, every   *)
(* execution of tools comes right after a chatbot step and is followed by   *)
(* a chatbot step.                                                          *)
C11_Order ==
    /\ (trace # <<>> => trace[1] = "query_rewriter")
    /\ \A i \in 2..Len(trace) : trace[i] # "query_rewriter"
    /\ (Len(trace) >= 2 => trace[2] = "chatbot")
    /\ \A i \in 1..Len(trace) :
        trace[i] = "tools" =>
            /\ i >= 3
            /\ trace[i - 1] = "chatbot"
            /\ (i < Len(trace) => trace[i + 1] = "chatbot")

C11_Scheduled ==
    pc = "invoke" =>
        /\ (trace = <<>> => active = {"query_rewriter"})
        /\ (trace # <<>> /\ Last(trace) = "query_rewriter" => active = {"chatbot"})
        /\ (trace # <<>> /\ Last(trace) = "tools" /\ ~dispatched => active = {"chatbot"})

C11_FixedNodeOrder == C11_Order /\ C11_Scheduled

(* A run whose rewriter failed has been twice through tools and chatbot. *)
C11_Witness ==
    /\ trace = <<"query_rewriter", "chatbot", "tools", "chatbot", "tools", "chatbot">>
    /\ Len(messages) >= 2
    /\ messages[3].type = "ai"

RunStarted == last'.op = "run" /\ last'.fault = NoFault /\ pc' = "invoke" /\ pc # "invoke"

(* C12: nothing persists from one run to the next: every run, also one that *)
(* follows another, starts from exactly [system prompt, human(question)]    *)
(* with original_user_query = question, and no turn of an earlier run is    *)
(* among its messages.                                                      *)
C12_FreshStart ==
    RunStarted =>
        /\ Len(messages') = 2
        /\ messages'[1].type = "system"
        /\ messages'[1].content = SYSTEM_PROMPT
        /\ messages'[2].type = "human"
        /\ messages'[2].content = question'
        /\ original_user_query' = question'
        /\ trace' = <<>>

C12_NoEarlierTurn ==
    \A k \in 1..Len(finished) : \A i \in 1..Len(finished[k]) : \A j \in 1..Len(messages) :
        messages[j].id # finished[k][i].id

C12_NoCrossRunPersistence == [][C12_FreshStart]_vars /\ []C12_NoEarlierTurn

(* A second run, for another question, has returned after a first run that  *)
(* went through the tools node.                                             *)
C12_Witness ==
    /\ Len(finished) = 1
    /\ Len(finished[1]) >= 5
    /\ \E i \in 1..Len(finished[1]) : finished[1][i].type = "tool"
    /\ pc = "returned"
    /\ finished[1][2].type = "human"
    /\ \E q \in Questions : q # question
    /\ messages[2].content = question

(* The runs whose writes a figure holds: a title or a dataset of theirs. *)
WritersOf(fig) ==
    {t \in ConcurrentRuns :
        \/ fig.title = ConcurrentArgs(t).graph_title
        \/ \E i \in 1..Len(fig.artists) : fig.artists[i].data = DataSet(t)}

(* C13: no shared mutable resource crosses concurrent requests: with two    *)
(* runs interleaved, no figure and no chart file holds what both runs       *)
(* wrote, and no statement of one run changes a figure or the chart file    *)
(* that holds what the other run wrote.                                     *)
C13_Unmixed ==
    /\ \A i \in 1..Len(plt.figs) : Cardinality(WritersOf(plt.figs[i])) <= 1
    /\ \A i \in 1..Len(plt.file) : Cardinality(WritersOf(plt.file[i])) <= 1

C13_KeepsOthers ==
    \A t \in ConcurrentRuns :
        (last'.op = "create_graph" /\ last'.idx = t /\ last'.content # "idle") =>
            /\ \A i \in 1..Len(plt.figs) :
                    (WritersOf(plt.figs[i]) \ {t} # {}) =>
                        (i <= Len(plt'.figs) /\ plt'.figs[i] = plt.figs[i])
            /\ \A i \in 1..Len(plt.file) :
                    (WritersOf(plt.file[i]) \ {t} # {}) => plt'.file = plt.file

C13_NoSharedResource == []C13_Unmixed /\ [][C13_KeepsOthers]_vars

(* The tools node has handled the request tcall. *)
ToolHandled == tcall.n > 0

(* C14: a request whose arguments violate the declared schema of its tool   *)
(* (a required field missing, a ticker outside {RNO.PA, ^FCHI}, a graph     *)
(* kind outside {bar, line}) never has the adapter body run: the body is    *)
(* not invoked and makes no call on its collaborators.                      *)
C14_SchemaViolationsRejected ==
    (/\ ToolHandled
     /\ \/ ~(RequiredFields(tcall.name) \subseteq DOMAIN tcall.args)
        \/ ~ConformsToEnum(tcall.name, tcall.args))
        => (~tcall.invoked /\ tret.calls = <<>>)

(* The tools node has run the body of the adapter name on tcall. *)
AdapterRan(name) == ToolHandled /\ tcall.invoked /\ tcall.name = name

CallsTo(calls, fns) ==
    LET Test(c) == c.fn \in fns IN SelectSeq(calls, Test)

SuccessText(args) ==
    args.graph_title \o ": Graph of type '" \o args.graph_type \o "' created successfully."

(* C15: create_graph with a kind that is neither "bar" nor "line" and       *)
(* well-formed datasets makes no bar and no line render call for any        *)
(* dataset (the saved figure is empty), returns the success string of a     *)
(* supported kind and calls error_handler zero times.                       *)
C15_UnsupportedKindNoOp ==
    (/\ AdapterRan("create_graph")
     /\ tcall.args.graph_type \notin {"bar", "line"}
     /\ tcall.outcome.fault = NoFault)
        => /\ CallsTo(tret.calls, {"plt.bar", "plt.plot"}) = <<>>
           /\ Len(CallsTo(tret.calls, {"pd.read_json"})) = Len(tcall.args.data)
           /\ Len(plt.file) = 1 /\ plt.file[1].artists = <<>>
           /\ tret.result = SuccessText(tcall.args)
           /\ tret.result = "Sales: Graph of type 'pie' created successfully."
           /\ tret.errs = <<>>
           /\ tret.raised = NoFault

(* A pie chart of two datasets has been reported as created. *)
C15_Witness ==
    /\ AdapterRan("create_graph")
    /\ tcall.args.graph_type = "pie"
    /\ Len(tcall.args.data) = 2
    /\ tcall.outcome.fault = NoFault
    /\ tret.result = "Sales: Graph of type 'pie' created successfully."

C18_DateFallback ==
    AdapterRan("get_current_date")
        => LET format == IF "format" \in DOMAIN tcall.args
                         THEN tcall.args.format ELSE "%Y-%m-%d"
           IN /\ tcall.outcome.fault # NoFault =>
                    /\ tret.errs = <<error_handler(tcall.outcome.fault)>>
                    /\ tret.result = TodayISO
              /\ tcall.outcome.fault = NoFault =>
                    /\ tret.errs = <<>>
                    /\ tret.result = IF format = "%m/%d/%Y" THEN TodayUS ELSE TodayISO
              /\ tret.result \in {TodayISO, TodayUS}
              /\ tret.raised = NoFault

(* Formatting with the month-first format has raised. *)
C18_Witness ==
    /\ AdapterRan("get_current_date")
    /\ tcall.args = [format |-> "%m/%d/%Y"]
    /\ tcall.outcome.fault # NoFault
    /\ tret.result = TodayISO
    /\ Len(tret.errs) = 1

ToolStepTaken == tcall'.n = tcall.n + 1

(* C19: error_handler, for any exception e, logs exactly one record and     *)
(* returns an ErrorResponse whose error field is the message text of e and  *)
(* whose type field is the class name of e, and raises nothing: every       *)
(* adapter call in which an exception e is raised adds exactly one record   *)
(* to the log, with exactly these two fields, and lets nothing escape; a    *)
(* call without an exception adds none.                                     *)
C19_Step ==
    ToolStepTaken =>
        /\ IsPrefix(errorLog, errorLog')
        /\ tret'.fault = NoFault => errorLog' = errorLog
        /\ tret'.fault # NoFault =>
              /\ Len(errorLog') = Len(errorLog) + 1
              /\ DOMAIN Last(errorLog') = {"error", "type"}
              /\ Last(errorLog').error = tret'.fault.msg
              /\ Last(errorLog').type = tret'.fault.type
              /\ tret'.errs = <<Last(errorLog')>>
              /\ tret'.raised = NoFault

C19_ErrorHandlerRecord == [][C19_Step]_vars

(* Two calls have raised exceptions of different classes. *)
C19_Witness ==
    /\ tcall.n = 2
    /\ Len(errorLog) = 2
    /\ errorLog[1].type = "KeyError" /\ errorLog[1].error = "'sales'"
    /\ errorLog[2].type = "ConnectionError" /\ errorLog[2].error = "Network error"

(* C20: retrieve, when the retriever returns k documents without fault,     *)
(* returns exactly k snippet lines joined by newlines, one per document in  *)
(* the retriever's order, having passed the question to the retriever       *)
(* unchanged; when opening the index or the retriever raises, it calls      *)
(* error_handler once and returns "An error occurred while retrieving       *)
(* documents.".                                                             *)
C20_Retrieve ==
    AdapterRan("retrieve_documents")
        => LET docs == tcall.outcome.docs
               k == Len(docs)
               asked == CallsTo(tret.calls, {"retriever.invoke"})
           IN /\ tcall.outcome.fault = NoFault =>
                    /\ Len(tret.data) = k
                    /\ \A i \in 1..k : tret.data[i] = "- " \o docs[i]
                    /\ k = 0 => tret.result = ""
                    /\ k = 1 => tret.result = "- Document 1"
                    /\ k = 2 => tret.result = "- Document 1\n- Document 2"
                    /\ Len(asked) = 1
                    /\ asked[1].arg = tcall.args.question
                    /\ tret.errs = <<>>
              /\ tcall.outcome.fault # NoFault =>
                    /\ tret.result = "An error occurred while retrieving documents."
                    /\ tret.errs = <<error_handler(tcall.outcome.fault)>>
                    /\ \A i \in 1..Len(asked) : asked[i].arg = tcall.args.question
              /\ tret.raised = NoFault

(* The retriever has returned two documents; on the call before, the index  *)
(* could not be opened.                                                     *)
C20_Witness ==
    /\ AdapterRan("retrieve_documents")
    /\ tcall.n = 2
    /\ tcall.outcome.fault = NoFault
    /\ Len(tcall.outcome.docs) = 2
    /\ tret.result = "- Document 1\n- Document 2"
    /\ Len(errorLog) = 1 /\ errorLog[1].type = "RuntimeError"

(* Executions of the tools node in this run. *)
ToolsExecutions == Cardinality({i \in 1..Len(trace) : trace[i] = "tools"})

(* The LLM has answered every chatbot step so far with requests. *)
AllTurnsRequest == \A i \in AssistantTurns(messages) : HasToolCalls(messages[i])

(* run has ended with an exception of an LLM call or of its construction. *)
LLMFailed == pc = "failed" /\ last.op \in {"run", "chatbot"}

RecursionStopped == pc = "failed" /\ last.op = "graph.invoke"

(* C21 as stated: the chatbot/tools loop has no iteration cap; a run whose  *)
(* LLM requests tools on every chatbot turn (its calls all returning) never *)
(* reaches end and never enters a terminal failure state.                   *)
C21_NoIterationCap ==
    (AllTurnsRequest /\ ~LLMFailed) => (pc # "failed" /\ ~AtEnd)

(* C21 as amended: the graph sets no cap of its own, but graph.invoke runs  *)
(* under the default recursion limit of 25 steps: a run executes at most 25 *)
(* nodes, the tools node at most 12 times; a run whose LLM requests tools   *)
(* on every turn does not reach end, and after its 25th step (the 12th      *)
(* execution of tools, chatbot being scheduled) graph.invoke raises         *)
(* GraphRecursionError and run ends in failure without an answer.           *)
C21_RecursionLimit ==
    /\ Len(trace) <= 25
    /\ ToolsExecutions <= 12
    /\ (AllTurnsRequest /\ ~LLMFailed) => ~AtEnd
    /\ RecursionStopped =>
          /\ Len(trace) = 25
          /\ ToolsExecutions = 12
          /\ AllTurnsRequest
          /\ active = {"chatbot"}
          /\ answer = NoAnswer
          /\ last.fault.type = "GraphRecursionError"
    /\ (pc = "invoke" /\ Len(trace) = 25 /\ active # {} /\ ~dispatched) =>
          ENABLED RecursionLimitReached

(* graph.invoke has stopped a run after its twelfth execution of tools. *)
C21_Witness ==
    /\ RecursionStopped
    /\ ToolsExecutions = 12
    /\ turns = 12

(* A step of the run in which an upstream service has failed. *)
ChatbotFaultStep == pc = "invoke" /\ last'.op = "chatbot" /\ last'.fault # NoFault

RewriterFaultStep == RewriterStepTaken /\ last'.fault # NoFault

ServiceToolFaultStep ==
    /\ RunOneTaken
    /\ last'.fault # NoFault
    /\ ToolNodeCalls(messages)[last'.idx].name \in {"get_stock_history", "retrieve_documents"}

Recorded == Len(errorLog') = Len(errorLog) + 1 /\ Last(errorLog') = error_handler(last'.fault)

(* C22 as stated: every upstream-service fault during a run (an LLM call    *)
(* failure in the rewriter step or in the chatbot step, index               *)
(* unavailability, market-data fetch failure) is recorded through           *)
(* error_handler and the run continues: no such fault aborts the run.       *)
C22_EveryFaultStep ==
    (RewriterFaultStep \/ ChatbotFaultStep \/ ServiceToolFaultStep) =>
        (Recorded /\ pc' = "invoke")

C22_EveryFaultContained == [][C22_EveryFaultStep]_vars

(* C22 as amended: an LLM call failure in the rewriter step is recorded     *)
(* through error_handler and the run continues to the chatbot step with the *)
(* messages unchanged; index unavailability and a market-data fetch failure *)
(* are recorded through error_handler and converted to the adapter's fixed  *)
(* failure text, and the run continues; an LLM call failure in the chatbot  *)
(* step is not caught: it is not recorded and run ends with that fault,     *)
(* returning no answer.                                                     *)
C22_Step ==
    /\ RewriterFaultStep =>
          (Recorded /\ pc' = "invoke" /\ messages' = messages /\ active' = {"chatbot"})
    /\ ServiceToolFaultStep =>
          /\ Recorded
          /\ pc' = "invoke"
          /\ outputs'[last'.idx] =
                IF ToolNodeCalls(messages)[last'.idx].name = "get_stock_history"
                THEN "An error occurred while fetching stock history."
                ELSE "An error occurred while retrieving documents."
    /\ ChatbotFaultStep =>
          /\ pc' = "failed"
          /\ errorLog' = errorLog
          /\ messages' = messages
          /\ answer' = NoAnswer

C22_FaultsContainedExceptChatbot == [][C22_Step]_vars

(* A market-data failure was contained and recorded, and then the LLM call  *)
(* of the chatbot step aborted the run.                                     *)
C22_Witness ==
    /\ pc = "failed"
    /\ last.op = "chatbot"
    /\ answer = NoAnswer
    /\ \E i \in 1..Len(errorLog) : errorLog[i].type = "ConnectionError"
    /\ \E i \in 1..Len(messages) :
          messages[i].type = "tool"
          /\ messages[i].content = "An error occurred while fetching stock history."

(* run has raised while constructing the LLM, its tool binding or the graph. *)
ConstructionFaultStep == last'.op = "run" /\ last'.fault # NoFault

ConstructionFailed == last.op = "run" /\ last.fault # NoFault

(* C23: a fault while constructing the LLM or its tool binding in run, that *)
(* is before graph.invoke, is not caught: run ends with that fault, no node *)
(* of the graph executes, error_handler is not called and run returns no    *)
(* answer string.                                                           *)
C23_Step ==
    ConstructionFaultStep =>
        /\ pc' = "failed"
        /\ errorLog' = errorLog
        /\ answer' = NoAnswer
        /\ trace' = <<>>
        /\ messages' = <<>>
        /\ active' = {}
        /\ llm_calls' = 0

C23_AfterFailure ==
    ConstructionFailed =>
        /\ pc = "failed"
        /\ trace = <<>>
        /\ llm_calls = 0
        /\ answer = NoAnswer
        /\ ~ENABLED (QueryRewriterStep \/ ChatbotRaises \/ ChatbotStep \/ ToolsDispatch
                        \/ ToolsRun \/ ToolsCollect \/ RunReturns)

C23_ConstructionFaultNotCaught == [][C23_Step]_vars /\ []C23_AfterFailure

(* run was called with a question and failed in construction. *)
C23_Witness ==
    /\ ConstructionFailed
    /\ pc = "failed"
    /\ question # NoQuery
    /\ errorLog = <<>>
    /\ answer = NoAnswer
    /\ trace = <<>>

(* Request i of the latest assistant turn has been handed to its adapter. *)
Executed(i) ==
    /\ dispatched
    /\ i \in 1..Len(outputs)
    /\ outputs[i] # NoOutput
    /\ ToolNodeInvokes(Last(messages).tool_calls[i])

(* C24 as stated: within one execution of the tools step at most one        *)
(* request is executed per tool name; of two or more requests naming the    *)
(* same tool no more than one is dispatched to that adapter.                *)
C24_AtMostOnePerName ==
    dispatched =>
        \A i, j \in 1..Len(Last(messages).tool_calls) :
            (i # j /\ Last(messages).tool_calls[i].name = Last(messages).tool_calls[j].name)
                => ~(Executed(i) /\ Executed(j))

(* C24 as amended: within one execution of the tools step every request of  *)
(* the latest assistant turn is executed exactly once, also when two or     *)
(* more requests name the same tool: each of them is dispatched to that     *)
(* adapter and has its own result.                                          *)
C24_RunStep ==
    RunOneTaken =>
        LET i == last'.idx
        IN /\ outputs[i] = NoOutput
           /\ outputs'[i] # NoOutput
           /\ \A j \in 1..Len(outputs) : j # i => outputs'[j] = outputs[j]

C24_CollectStep ==
    ToolsCollectTaken =>
        \A i \in 1..Len(Last(messages).tool_calls) : outputs[i] # NoOutput

C24_Pending ==
    dispatched =>
        /\ Len(outputs) = Len(Last(messages).tool_calls)
        /\ \A i \in 1..Len(outputs) : outputs[i] = NoOutput => ENABLED RunOne(i)

C24_EveryRequestExecuted ==
    [][C24_RunStep /\ C24_CollectStep]_vars /\ []C24_Pending

(* Two get_current_date requests of one turn were both executed: each has   *)
(* the date in the format it asked for.                                     *)
C24_Witness ==
    /\ Executed(1) /\ Executed(2)
    /\ Len(outputs) = 2
    /\ \A i \in 1..2 : Last(messages).tool_calls[i].name = "get_current_date"
    /\ {outputs[1], outputs[2]} = {TodayISO, TodayUS}

(* The requests of the tools step under way whose adapter is executing. *)
ExecutingNow == {i \in 1..Len(outputs) : outputs[i] = Executing}

Unfinished == {i \in 1..Len(outputs) : outputs[i] \in {NoOutput, Executing}}

(* Every request of every assistant turn of msgs has its result turn. *)
AllAnswered(msgs) ==
    \A k \in 1..Len(msgs) :
        \A c \in 1..Len(msgs[k].tool_calls) :
            \E r \in (k + 1)..Len(msgs) :
                msgs[r].type = "tool" /\ msgs[r].tool_call_id = msgs[k].tool_calls[c].id

(* The chatbot step starts: its LLM call is made, and returns or raises. *)
ChatbotStarts == pc = "invoke" /\ last'.op = "chatbot"

ChatbotWaits ==
    ChatbotStarts => (~dispatched /\ Unfinished = {} /\ AllAnswered(messages))

(* C25 as stated: within one run tool dispatch is sequential: at most one   *)
(* adapter is executing at any moment, an invocation starts only when the   *)
(* one before has run to completion, and the chatbot step never starts      *)
(* while an invocation of the preceding assistant turn is still executing   *)
(* or lacks its result turn.                                                *)
C25_SequentialDispatch ==
    /\ [](Cardinality(ExecutingNow) <= 1)
    /\ [][ChatbotWaits]_vars

(* C25 as amended: the requests of one assistant turn are dispatched        *)
(* together: an adapter may start while the adapters of other requests of   *)
(* the turn are still executing; the tools step ends only when every        *)
(* invocation has run to completion or local failure, and the chatbot step  *)
(* never starts while an invocation of the preceding assistant turn is      *)
(* still executing or lacks its result turn.                                *)
C25_StartsWithoutWaiting ==
    dispatched => \A i \in 1..Len(outputs) : outputs[i] = NoOutput => ENABLED PoolStart(i)

C25_NodeWaitsForAll ==
    Unfinished # {} => ~ENABLED (ChatbotStep \/ ChatbotRaises \/ RunReturns)

C25_CollectStep == ToolsCollectTaken => Unfinished = {}

C25_ParallelDispatchChatbotWaits ==
    /\ []C25_StartsWithoutWaiting
    /\ []C25_NodeWaitsForAll
    /\ [][ChatbotWaits /\ C25_CollectStep]_vars

(* Two adapters of one turn are executing at the same time and the chatbot  *)
(* step cannot start.                                                       *)
C25_Witness ==
    /\ dispatched
    /\ ExecutingNow = {1, 2}
    /\ ~ENABLED ChatbotStep

Constructors == {"HuggingFaceEmbeddings", "chromadb.PersistentClient", "Chroma",
                 "db.as_retriever"}

(* C26: every call of retrieve calls get_retriever once, which constructs   *)
(* one new handle (embedding function, persistent index client, collection, *)
(* retriever) before the query and reuses none of an earlier call; the      *)
(* search mode and the result count K are the configured ones whatever the  *)
(* question argument is.                                                    *)
C26_FreshConfiguredHandle ==
    AdapterRan("retrieve_documents") =>
        LET calls == tret.calls
            built == CallsTo(calls, Constructors)
            asked == CallsTo(calls, {"retriever.invoke"})
        IN /\ Len(CallsTo(calls, {"get_retriever"})) = 1
           /\ calls[1].fn = "get_retriever"
           /\ \A fn \in Constructors : Len(CallsTo(calls, {fn})) <= 1
           /\ ~(tcall.outcome.fault # NoFault /\ tcall.outcome.at = "get_retriever") =>
                 /\ [i \in 1..Len(built) |-> built[i].fn] =
                        <<"HuggingFaceEmbeddings", "chromadb.PersistentClient", "Chroma",
                          "db.as_retriever">>
                 /\ built[1].arg = "sentence-transformers/all-MiniLM-l6-v2"
                 /\ built[3].arg = "db-rag"
                 /\ built[4].arg = [search_type |-> "mmr", k |-> 10]
                 /\ Len(asked) = 1
                 /\ calls = <<calls[1]>> \o built \o asked

(* The second call of the sitting asked a question that names another       *)
(* search mode and count; it built its own handle with the configured ones. *)
C26_Witness ==
    /\ AdapterRan("retrieve_documents")
    /\ tcall.n = 2
    /\ tcall.args.question = "search_type=similarity k=1"
    /\ tcall.outcome.fault = NoFault
    /\ Len(CallsTo(tret.calls, Constructors)) = 4
    /\ Len(tcall.outcome.docs) = 2

(* The turn r of msgs is a result turn that follows, over result turns      *)
(* only, the assistant turn that carried its request.                       *)
FollowsItsRequest(msgs, r) ==
    \E k \in 1..(r - 1) :
        /\ msgs[k].type = "ai"
        /\ \E c \in 1..Len(msgs[k].tool_calls) :
              msgs[k].tool_calls[c].id = msgs[r].tool_call_id
        /\ \A j \in (k + 1)..(r - 1) : msgs[j].type = "tool"

MessageShape(msgs) ==
    /\ \A r \in 1..Len(msgs) : msgs[r].type = "tool" => FollowsItsRequest(msgs, r)
    /\ \A i \in 1..(Len(msgs) - 1) : ~(msgs[i].type = "ai" /\ msgs[i + 1].type = "ai")

ChatbotInput ==
    ChatbotStarts =>
        /\ Last(messages).type \in {"human", "tool"}
        /\ AllAnswered(messages)
        /\ (last'.fault = NoFault) => llm_input' = messages

(* C27: whenever the chatbot step is invoked, the last turn of messages is  *)
(* a human turn or a tool-result turn and every request of every earlier    *)
(* assistant turn has its result turn; every tool-result turn follows, with *)
(* only tool-result turns in between, the assistant turn that carried its   *)
(* request; and no two assistant turns are adjacent.                        *)
C27_MessageShape == []MessageShape(messages) /\ [][ChatbotInput]_vars

(* The chatbot step was invoked on messages ending with the two result      *)
(* turns of the two requests of the assistant turn before.                  *)
C27_Witness ==
    /\ last.op = "chatbot"
    /\ Len(llm_input) >= 5
    /\ Last(llm_input).type = "tool"
    /\ llm_input[Len(llm_input) - 1].type = "tool"
    /\ Len(llm_input[Len(llm_input) - 2].tool_calls) = 2
    /\ Last(messages).type = "ai"

(* graph.invoke has been called for the question of the run. *)
InRun == pc \in {"invoke", "returned"} \/ (pc = "failed" /\ ~ConstructionFailed)

HumanTurns(msgs) == {i \in 1..Len(msgs) : msgs[i].type = "human"}

Opening ==
    InRun =>
        /\ Len(messages) >= 2
        /\ messages[1].type = "system" /\ messages[1].content = SYSTEM_PROMPT
        /\ messages[2].type = "human" /\ messages[2].content = original_user_query
        /\ original_user_query = question
        /\ HumanTurns(messages) \subseteq {2, 3}
        /\ \A i \in 1..Len(messages) : messages[i].type = "system" => i = 1

RewrittenThird ==
    (RewriterStepTaken /\ last'.fault = NoFault) =>
        /\ Len(messages') = 3
        /\ messages'[3].type = "human"
        /\ messages'[3].content = last'.content
        /\ messages'[2] = messages[2]

OpeningKept ==
    (InRun /\ InRun' /\ question' = question /\ last'.op # "run") =>
        \A i \in 1..Len(messages) : i <= 3 => messages'[i] = messages[i]

(* C28: in every state of a run the first turn of messages is the system    *)
(* turn carrying SYSTEM_PROMPT and the second is a human turn whose content *)
(* is original_user_query; the rewritten query, when there is one, is the   *)
(* third turn and never takes the place of the second.                      *)
C28_OpeningTurns == []Opening /\ [][RewrittenThird /\ OpeningKept]_vars

(* The run has returned with the rewritten query as its third turn, behind  *)
(* the system turn and the question.                                        *)
C28_Witness ==
    /\ pc = "returned"
    /\ Len(messages) >= 6
    /\ messages[3].type = "human"
    /\ messages[3].content = "rewritten"
    /\ messages[2].content = question
    /\ messages[1].content = SYSTEM_PROMPT

(* C29: every figure create_graph opens is closed before it returns, on the *)
(* success path and on the failure path alike: after any sequence of        *)
(* create_graph calls the number of open figures is the number before the   *)
(* sequence.                                                                *)
C29_FiguresClosed == Len(plt.figs) = Len(PltInit.figs)

(* The tools node has run create_graph and the call failed in its loop. *)
GraphFailedStep ==
    /\ tcall'.n = tcall.n + 1
    /\ tcall'.name = "create_graph"
    /\ tcall'.invoked
    /\ tret'.fault # NoFault

(* C30: a create_graph that fails while reading or plotting a dataset, also *)
(* after earlier datasets were plotted, writes no image: graph.png is left  *)
(* as it was before the call, error_handler is called once, and the         *)
(* returned string begins with the fixed failure text.                      *)
C30_Step ==
    GraphFailedStep =>
        /\ tcall'.outcome.at \in {"read_json", "plot"}
        /\ tcall'.outcome.idx \in 1..Len(tcall'.args.data)
        /\ plt'.file = plt.file
        /\ CallsTo(tret'.calls, {"plt.savefig"}) = <<>>
        /\ errorLog' = Append(errorLog, error_handler(tcall'.outcome.fault))
        /\ tret'.errs = <<error_handler(tcall'.outcome.fault)>>
        /\ tret'.result = "An error occurred while creating the graph: "
                              \o tcall'.outcome.fault.msg
        /\ tret'.raised = NoFault

C30_FailureWritesNoImage == [][C30_Step]_vars

(* The first call wrote graph.png; the second one plotted its first dataset *)
(* and failed on the second, and graph.png still holds the first chart.     *)
C30_Witness ==
    /\ AdapterRan("create_graph")
    /\ tcall.n = 2
    /\ tret.fault # NoFault
    /\ tcall.outcome.idx = 2
    /\ Len(CallsTo(tret.calls, {"plt.bar", "plt.plot"})) = 1
    /\ plt.file # <<>>
    /\ Len(plt.file[1].artists) = 1
    /\ Len(errorLog) = 1

====
